---- MODULE Spec2Model ----
(***************************************************************************)
(* Model of the VESC motor component, src/src/models/vesc.py (class Vesc). *)
(*                                                                         *)
(* The component runs on one asyncio event loop: code between two awaits   *)
(* is atomic, so every action below is one such segment of a coroutine.    *)
(* The suspension points of the source are                                 *)
(*   - `async with self._lock` when the lock is taken (asyncio.Lock, FIFO, *)
(*     not re-entrant),                                                    *)
(*   - asyncio.sleep(0.1) in set_power, asyncio.sleep(time_needed) in      *)
(*     go_for, asyncio.sleep(0.2) in do_command/test_direction.            *)
(*                                                                         *)
(* Numbers.  The source works on floats; the model uses fixed point, and   *)
(* computes int(x * scale) as IEEE double arithmetic does (FloatInt):      *)
(*   power       in millionths (One = 1.0),                                *)
(*   rpm         in tenths of an rpm,                                      *)
(*   revolutions and position in tenths of a revolution,                   *)
(*   current     in millionths of an ampere.                               *)
(***************************************************************************)
EXTENDS Integers, Sequences, FiniteSets, TLC

\* ------------------------------------------------------------------ bounds
NTasks == 2        \* concurrent callers (RPC handler tasks)
MaxCalls == 3      \* public calls made in one behaviour
MaxPayload == 2    \* bytes in a payload handed to the framing code

\* ------------------------------------------------------- program constants
One == 1000000         \* the clamp limit 1.0 of set_power, in millionths
DutyScale == 100000    \* duty_int = int(power * 100000)
MilliScale == 1000     \* current_ma = int(float(current) * 1000)
CmdDuty == 5           \* _send_packet(5, ...)  "COMM_SET_DUTY = 5"
CmdRpm == 8            \* _send_packet(8, ...)  "COMM_SET_RPM = 8"
CmdGetValues == 4      \* _send_packet(4)       "COMM_GET_VALUES = 4"
CmdCurrent == 6        \* _send_packet(6, ...)  "COMM_SET_CURRENT = 6"
CrcPoly == 4129        \* 0x1021
CrcTop == 32768        \* 0x8000
CrcMod == 65536        \* & 0xFFFF
ShortMax == 256        \* len(payload) <= 256: short packet
NoExpected == -1       \* expected_id = None

Tasks == 1..NTasks
NoTask == 0

\* ------------------------------------------------------------------ inputs
PowerInputs == {-1500000, 0, 500000, 1500000}
RpmInputs == {0, 5005}
RevInputs == {0, 20}
OffsetInputs == {5}
TargetInputs == {5}
Directions == {"forward", "reverse", "stop", "sideways"}
TestPowers == {290000}
CurrentInputs == {1001000}
\* bytes and command ids used for frames
ByteInputs == {0, 3, 255}
IdInputs == {CmdGetValues, CmdDuty}
\* command names do_command does not know; "None": the dict has no "command"
UnknownNames == {"bogus", "None"}

VARIABLES
    link,           \* self.serial_port: "none" (None), "open", "closed"
    owner,          \* self._lock: the task that holds it, NoTask when unlocked
    waiters,        \* self._lock._waiters, in arrival order
    is_powered,     \* self._is_powered
    current_power,  \* self._current_power
    current_rpm,    \* self._current_rpm
    position,       \* self._position
    is_moving,      \* self._is_moving
    wire,           \* the last packet the serial port accepted
    pc,             \* where each task's coroutine is suspended
    loc,            \* each task's call in progress: operation, arguments, locals
    last,           \* the call that ended since the latest call arrived, with its
                    \* result (Blank when none has)
    ncalls,         \* public calls made so far
    nopen,          \* serial handles this controller has opened and not closed
    tx,             \* the command id and payload handed to _send_packet
    frame,          \* the bytes waiting in the port's receive buffer
    rx              \* what _read_packet returned

ctrl == <<is_powered, current_power, current_rpm, position, is_moving>>
lockv == <<owner, waiters>>
codec == <<tx, frame, rx>>
vars == <<link, owner, waiters, is_powered, current_power, current_rpm,
          position, is_moving, wire, pc, loc, last, ncalls, nopen, tx, frame, rx>>

\* ----------------------------------------------------------------- helpers
Max(a, b) == IF a >= b THEN a ELSE b
Min(a, b) == IF a <= b THEN a ELSE b
Abs(a) == IF a >= 0 THEN a ELSE -a

\* int(x) of the source: truncation toward zero of n / d
Trunc(n, d) == IF n >= 0 THEN n \div d ELSE -((-n) \div d)

\* (mutant) no clamp
ClampNone(power) == power

\* (mutant) a clamp with the lower limit left out
ClampUpperOnly(power) == Min(One, power)

\* power = max(-1.0, min(1.0, power))
Clamp(power) == Max(-One, Min(One, power))

\* 2 * r, n times over, modulo c
RECURSIVE DoubleMod(_, _, _)
DoubleMod(r, c, n) == IF n = 0 THEN r ELSE DoubleMod((2 * r) % c, c, n - 1)

\* the number of doublings that bring n >= 1 up to c or more
RECURSIVE ShiftUp(_, _)
ShiftUp(n, c) == IF n >= c THEN 0 ELSE ShiftUp(2 * n, c) + 1

\* the number of halvings that bring n below 2 * c
RECURSIVE ShiftDown(_, _)
ShiftDown(n, c) == IF n \div 2 >= c THEN ShiftDown(n \div 2, c) + 1 ELSE 0

RECURSIVE Pow2(_)
Pow2(j) == IF j = 0 THEN 1 ELSE 2 * Pow2(j - 1)

\* the smallest power of two that is at least c, from p on
RECURSIVE PowerAbove(_, _)
PowerAbove(c, p) == IF p >= c THEN p ELSE PowerAbove(c, 2 * p)

\* float arithmetic of `x * c` for the double x nearest to n / c (n >= 1 and
\* c integers, c not a power of two): whether the product, rounded to a
\* double, is below n.  x is n / c rounded to 53 bits, off by less than
\* c / 2 units of its last place once multiplied by c; the product is
\* rounded to 53 bits again, which gives n back unless x was rounded down by
\* more than half a unit of the product's last place.  With the double's
\* significand written as n * 2^e / c in [2^52, 2^53), rem is n * 2^e mod c, the
\* amount lost by the first rounding, and the product's unit is m / 2 when
\* the significand is at most m / c * 2^52 (m the power of two above c), and m
\* otherwise.
FloatFallsShort(n, c) ==
    LET m == PowerAbove(c, 1)
        up == ShiftUp(n, c)
        down == ShiftDown(n, c)
        head == n \div Pow2(down)
        below == IF n < c THEN n * Pow2(up) <= m
                 ELSE head < m \/ (head = m /\ n % Pow2(down) = 0)
        rem == DoubleMod(n % c, c, 52 + up - down)
    IN  below /\ m \div 4 < rem /\ 2 * rem < c

\* int(x * c) for the float x written as the decimal k / (q * c): when
\* k / q is not an integer the rounding cannot reach the next integer and the
\* result is the truncated quotient; when it is, the product may fall just
\* short of it (0.29 * 100000 = 28999.999999999996)
FloatInt(k, q, c) ==
    IF k % q # 0 THEN Trunc(k, q)
    ELSE LET n == Abs(k) \div q
             r == IF n > 0 /\ FloatFallsShort(n, c) THEN n - 1 ELSE n
         IN  IF k >= 0 THEN r ELSE -r

\* duty_int = int(power * 100000); power is in millionths, so power * 100000
\* is power / (One / DutyScale) in the model's unit
DutyInt(power) == FloatInt(power, One \div DutyScale, DutyScale)

\* rpm_int = int(rpm), rpm in tenths
RpmInt(rpm) == Trunc(rpm, 10)

\* current_ma = int(float(current) * 1000), current in millionths of an ampere
CurrentMa(current) == FloatInt(current, One \div MilliScale, MilliScale)

\* time_needed = abs(revolutions / rpm) * 60.0, in whole milliseconds
TimeNeeded(rpm, revolutions) == (Abs(revolutions) * 60000) \div Abs(rpm)

NoWire == [cmd |-> -1, val |-> 0]
\* do_command's error results carry a message: a fixed text and, for an
\* unknown command, the command name formatted into it
NoMsg == [text |-> "", name |-> ""]
Msg(text) == [text |-> text, name |-> ""]

\* a task's call: op the public method, a and b its arguments (for do_command:
\* dir the command or direction, b the power, a the argument handed to
\* set_power), ph the part of the method reached, sent the packets the port
\* accepted from this call, rv whether set_power took the direction-change
\* branch, dur the sleep of go_for, ret how the call ended, after_stop
\* whether the call that ended just before this one was a stop() that returned,
\* tried the _send_packet calls the call made, accepted by the port or not,
\* tgt the target position of go_to, msg the "message" of the dict that
\* do_command returned with status "error"
Blank == [op |-> "none", a |-> 0, b |-> 0, dir |-> "", ph |-> 0,
          ret |-> "none", sent |-> <<>>, rv |-> FALSE, dur |-> 0, after_stop |-> FALSE,
          tried |-> <<>>, tgt |-> 0, msg |-> NoMsg]

\* how serial_port.write(packet); serial_port.flush() of _send_packet (lines
\* 411-412) can go on an open port: both work ("ok"), write takes the packet
\* and flush raises ("flush"), write raises and the port takes nothing ("write")
SendOutcomes == {"ok", "flush", "write"}

\* _send_packet returns True: the port is open and write/flush did not raise
SendOK(w) == link = "open" /\ w = "ok"

\* the port has taken the packet, whether or not _send_packet returns True
Accepted(w) == link = "open" /\ w \in {"ok", "flush"}

\* how the payload of a command is packed: struct.pack('>i', ...) for duty, rpm
\* and current (lines 486, 492, 520, 570, 624, 678), no payload for get-values
Enc(cmd) == IF cmd = CmdGetValues THEN "empty" ELSE "i32"

\* the task's record after _send_packet(cmd, payload(val)); held: the caller
\* is inside `async with self._lock`
Tx(L, cmd, val, held, w) ==
    LET T == [L EXCEPT !.tried = Append(@, [cmd |-> cmd, enc |-> Enc(cmd)])] IN
    IF Accepted(w)
    THEN [T EXCEPT !.sent = Append(@, [cmd |-> cmd, val |-> val, locked |-> held])]
    ELSE T

\* what the port has accepted last after _send_packet(cmd, payload(val))
Wire(cmd, val, w) ==
    IF Accepted(w) THEN [cmd |-> cmd, val |-> val] ELSE wire

\* (mutant) a lock that is handed out without looking at its state
CanAcquireAlways == TRUE

\* asyncio.Lock.acquire takes the lock without suspending only when it is
\* unlocked and nobody is queued
CanAcquire == owner = NoTask /\ waiters = <<>>

\* ------------------------------------------------------------ framing
\* a ^ b on non-negative integers
RECURSIVE Xor(_, _)
Xor(a, b) ==
    IF a = 0 THEN b
    ELSE IF b = 0 THEN a
    ELSE 2 * Xor(a \div 2, b \div 2) + (((a % 2) + (b % 2)) % 2)

\* the inner loop of _crc16 with the mask to 16 bits left out
RECURSIVE CrcShiftNoMask(_, _)
CrcShiftNoMask(crc, n) ==
    IF n = 0 THEN crc
    ELSE CrcShiftNoMask(IF crc >= CrcTop THEN Xor(crc * 2, CrcPoly) ELSE crc * 2,
                        n - 1)

\* lines 381-385: one pass of the inner loop of _crc16, n passes left
RECURSIVE CrcShift(_, _)
CrcShift(crc, n) ==
    IF n = 0 THEN crc
    ELSE CrcShift(IF crc >= CrcTop
                  THEN Xor((crc * 2) % CrcMod, CrcPoly)
                  ELSE (crc * 2) % CrcMod,
                  n - 1)

\* lines 380-385: the outer loop of _crc16 over the bytes data[lo..hi] in
\* order, starting from crc, a 16-bit value (the range is halved, and the
\* accumulator looked at before going on, so that long inputs do not nest
\* one evaluation per byte)
RECURSIVE CrcRange(_, _, _, _)
CrcRange(crc, data, lo, hi) ==
    IF lo > hi \/ crc \notin 0..(CrcMod - 1) THEN crc
    ELSE IF lo = hi THEN CrcShift(Xor(crc, data[lo] * 256), 8)
    ELSE CrcRange(CrcRange(crc, data, lo, (lo + hi) \div 2),
                  data, (lo + hi) \div 2 + 1, hi)

\* lines 378-386: _crc16 over the bytes data[i..], starting from crc
CrcFrom(crc, data, i) == CrcRange(crc, data, i, Len(data))

crc16(data) == CrcFrom(0, data, 1)

\* test_vesc.py lines 47-52: the inner loop of VESCTester.crc16, n passes
\* left; the shifted value is xored first and masked afterwards
RECURSIVE TesterShift(_, _)
TesterShift(crc, n) ==
    IF n = 0 THEN crc
    ELSE TesterShift((IF crc >= CrcTop THEN Xor(crc * 2, CrcPoly) ELSE crc * 2) % CrcMod,
                     n - 1)

\* test_vesc.py lines 45-52: the outer loop of VESCTester.crc16 over the
\* bytes data[lo..hi], starting from crc
RECURSIVE TesterRange(_, _, _, _)
TesterRange(crc, data, lo, hi) ==
    IF lo > hi \/ crc \notin Nat THEN crc
    ELSE IF lo = hi THEN TesterShift(Xor(crc, data[lo] * 256), 8)
    ELSE TesterRange(TesterRange(crc, data, lo, (lo + hi) \div 2),
                     data, (lo + hi) \div 2 + 1, hi)

\* test_vesc.py lines 42-53: VESCTester.crc16
tester_crc16(data) == TesterRange(0, data, 1, Len(data))

\* struct.pack('>H', v)
PackH(v) == <<v \div 256, v % 256>>

\* lines 388-398: _pack_payload; struct.pack('BB', 2, 256) raises
\* struct.error, and so does struct.pack('BBB', 3, len >> 8, len & 0xFF)
\* once len >> 8 is over 255
pack_payload(payload) ==
    IF Len(payload) = ShortMax \/ Len(payload) \div 256 > 255
    THEN [raised |-> TRUE, bytes |-> <<>>]
    ELSE [raised |-> FALSE,
          bytes |-> (IF Len(payload) < ShortMax
                     THEN <<2, Len(payload)>>
                     ELSE <<3, Len(payload) \div 256, Len(payload) % 256>>)
                    \o payload \o PackH(crc16(payload)) \o <<3>>]

\* lines 407-408: the bytes _send_packet hands to serial_port.write
SendBytes(id, payload) == pack_payload(<<id>> \o payload)

\* serial_port.read(n) on a buffer holding bytes s from position i on: up to
\* n bytes, fewer when the buffer runs out and the read times out
ReadN(s, i, n) == SubSeq(s, i, Min(i + n - 1, Len(s)))

\* (mutant) the received CRC is not compared with the computed one
ReadPacketNoCrc(s, expected) ==
    LET id == ReadN(s, 1, 1)
        lb == ReadN(s, 2, 2)
        n == IF Len(lb) = 2 THEN lb[1] * 256 + lb[2] ELSE 0
        payload == ReadN(s, 4, n)
        cb == ReadN(s, 4 + n, 2)
        None == [none |-> TRUE, payload |-> <<>>, called |-> TRUE, expected |-> expected]
    IN  IF Len(id) # 1 \/ Len(lb) # 2 \/ Len(payload) # n \/ Len(cb) # 2 THEN None
        ELSE IF expected \notin {NoExpected, 0} /\ id[1] # expected THEN None
        ELSE [none |-> FALSE, payload |-> payload, called |-> TRUE, expected |-> expected]

\* lines 418-463: _read_packet on an open port whose buffer holds s; expected
\* is expected_id, NoExpected for None
ReadPacket(s, expected) ==
    LET id == ReadN(s, 1, 1)
        lb == ReadN(s, 2, 2)
        n == IF Len(lb) = 2 THEN lb[1] * 256 + lb[2] ELSE 0
        payload == ReadN(s, 4, n)
        cb == ReadN(s, 4 + n, 2)
        None == [none |-> TRUE, payload |-> <<>>, called |-> TRUE, expected |-> expected]
    IN  IF Len(id) # 1 \/ Len(lb) # 2 \/ Len(payload) # n \/ Len(cb) # 2 THEN None
        ELSE IF cb[1] * 256 + cb[2] # crc16(id \o lb \o payload) THEN None
        ELSE IF expected \notin {NoExpected, 0} /\ id[1] # expected THEN None
        ELSE [none |-> FALSE, payload |-> payload, called |-> TRUE, expected |-> expected]

\* the frame _read_packet takes in: packet id, 16-bit length, payload, CRC16
\* over the three (lines 427-448)
InboundFrame(id, payload) ==
    LET head == <<id>> \o PackH(Len(payload)) \o payload
    IN  head \o PackH(crc16(head))

\* byte b with bit k (0..7) inverted
FlipBit(b, k) == Xor(b, 2 ^ k)

\* nothing handed to _send_packet yet; _read_packet not called yet
NoTx == [id |-> -1, payload |-> <<>>]
NotRead == [none |-> TRUE, payload |-> <<>>, called |-> FALSE, expected |-> -1]
\* an empty receive buffer; origin: "loopback" the bytes _send_packet wrote,
\* "inbound" a frame laid out as _read_packet reads it; flipped: one bit of it
\* was inverted on the way
NoFrame == [bytes |-> <<>>, origin |-> "none", flipped |-> FALSE]

\* the state Vesc.new returns: __init__ (lines 293-304), then a reconfigure
\* that opened the port (a failed one raises and no component exists)
Init ==
    /\ link = "open"
    /\ owner = NoTask
    /\ waiters = <<>>
    /\ is_powered = FALSE
    /\ current_power = 0
    /\ current_rpm = 0
    /\ position = 0
    /\ is_moving = FALSE
    /\ wire = NoWire
    /\ pc = [t \in Tasks |-> "idle"]
    /\ loc = [t \in Tasks |-> Blank]
    /\ last = Blank
    /\ ncalls = 0
    /\ nopen = 1
    /\ tx = NoTx
    /\ frame = NoFrame
    /\ rx = NotRead

\* the coroutine of task t ends: r is "ok"/"success"/"error" or "raise"
Finish(t, L, r) ==
    /\ pc' = [pc EXCEPT ![t] = "idle"]
    /\ loc' = [loc EXCEPT ![t] = Blank]
    /\ last' = [L EXCEPT !.ret = r, !.ph = 0, !.dur = 0,
                         !.after_stop = (last.op = "stop" /\ last.ret = "ok")]

\* the coroutine of task t suspends at label l
Suspend(t, L, l) ==
    /\ pc' = [pc EXCEPT ![t] = l]
    /\ loc' = [loc EXCEPT ![t] = L]
    /\ last' = IF pc[t] = "idle" THEN Blank ELSE last

\* `async with self._lock` found the lock taken: queue and suspend
Enqueue(t, L, l) ==
    /\ waiters' = Append(waiters, t)
    /\ Suspend(t, L, l)
    /\ UNCHANGED <<owner, ctrl, wire>>

\* ---------------------------------------------------------------- stop
\* (mutant) a stop that forgets to clear the recorded rpm
StopBodyKeepsRpm(t, L, Q, w) ==
    LET ok == SendOK(w)
        L1 == Tx(L, CmdDuty, 0, TRUE, w)
    IN  /\ wire' = Wire(CmdDuty, 0, w)
        /\ is_powered' = IF ok THEN FALSE ELSE is_powered
        /\ current_power' = IF ok THEN 0 ELSE current_power
        /\ is_moving' = IF ok THEN FALSE ELSE is_moving
        /\ UNCHANGED <<current_rpm, position>>
        /\ owner' = NoTask
        /\ waiters' = Q
        /\ IF L.op = "do_command" /\ L.ph = 1 /\ ok
           THEN Suspend(t, L1, "td_sleep")
           ELSE Finish(t, L1, IF ~ok THEN "raise"
                             ELSE IF L.op = "do_command" THEN "success" ELSE "ok")

\* Vesc.stop from inside its `async with self._lock` (lock just acquired, Q the
\* remaining queue) to the end of the coroutine that called it.
StopBody(t, L, Q, w) ==
    LET ok == SendOK(w)
        L1 == Tx(L, CmdDuty, 0, TRUE, w)
        nested == L.op \in {"go_for", "go_to"}
    IN  /\ wire' = Wire(CmdDuty, 0, w)
        /\ is_powered' = IF ok THEN FALSE ELSE is_powered
        /\ current_power' = IF ok THEN 0 ELSE current_power
        /\ current_rpm' = IF ok THEN 0 ELSE current_rpm
        /\ is_moving' = IF ok THEN FALSE ELSE is_moving
        \* go_for line 540 after its stop() returned from the timed wait
        /\ position' = IF nested /\ ok /\ L.ph = 2 THEN position + L.b ELSE position
        /\ owner' = NoTask
        /\ waiters' = Q
        /\ CASE L.op = "do_command" /\ L.ph = 1 ->
                 \* test_direction: stop first, then asyncio.sleep(0.2)
                 IF ok THEN Suspend(t, L1, "td_sleep") ELSE Finish(t, L1, "raise")
              [] L.op = "do_command" /\ L.ph # 1 ->
                 Finish(t, L1, IF ok THEN "success" ELSE "raise")
              [] nested ->
                 \* stop() released the lock go_for still believes it holds:
                 \* leaving go_for's `async with` releases an unlocked lock
                 Finish(t, L1, "raise")
              [] OTHER ->
                 Finish(t, L1, IF ok THEN "ok" ELSE "raise")

\* ------------------------------------------------------------ set_power
\* lines 490-500: send the duty command, record it, leave the lock
SP_Send(t, L, Q, w) ==
    LET power == Clamp(L.a)
        ok == SendOK(w)
        L1 == Tx(L, CmdDuty, DutyInt(power), TRUE, w)
    IN  /\ wire' = Wire(CmdDuty, DutyInt(power), w)
        /\ is_powered' = IF ok THEN power # 0 ELSE is_powered
        /\ current_power' = IF ok THEN power ELSE current_power
        /\ is_moving' = IF ok THEN power # 0 ELSE is_moving
        /\ UNCHANGED <<current_rpm, position>>
        /\ owner' = NoTask
        /\ waiters' = Q
        /\ Finish(t, L1, IF ~ok THEN "raise"
                         ELSE IF L.op = "do_command" THEN "success" ELSE "ok")

\* lines 482-483: the recorded power is non-zero and of the other sign
Reversal(power) ==
    /\ current_power # 0
    /\ \/ current_power > 0 /\ power < 0
       \/ current_power < 0 /\ power > 0

\* lines 478-488: inside the lock; on a direction change send zero duty
\* (result not looked at) and sleep 0.1 s with the lock held
SP_Begin(t, L, Q, w) ==
    IF Reversal(Clamp(L.a))
    THEN /\ wire' = Wire(CmdDuty, 0, w)
         /\ owner' = t
         /\ waiters' = Q
         /\ Suspend(t, [Tx(L, CmdDuty, 0, TRUE, w) EXCEPT !.rv = TRUE], "sp_settle")
         /\ UNCHANGED ctrl
    ELSE SP_Send(t, L, Q, w)

\* --------------------------------------------------------------- go_for
\* (mutant) a go_for that records the motor as powered but not as moving
GF_BeginPowerOnly(t, L, Q, w) ==
    IF L.b = 0
    THEN /\ owner' = t
         /\ waiters' = Append(Q, t)
         /\ Suspend(t, L, "gf_stop")
         /\ UNCHANGED <<ctrl, wire>>
    ELSE LET ok == SendOK(w)
             L1 == Tx(L, CmdRpm, RpmInt(L.a), TRUE, w)
         IN  /\ wire' = Wire(CmdRpm, RpmInt(L.a), w)
             /\ current_rpm' = IF ok THEN L.a ELSE current_rpm
             /\ is_powered' = IF ok THEN TRUE ELSE is_powered
             /\ UNCHANGED <<current_power, position, is_moving>>
             /\ waiters' = Q
             /\ IF ~ok
                THEN owner' = NoTask /\ Finish(t, L1, "raise")
                ELSE IF L.a # 0
                THEN /\ owner' = t
                     /\ Suspend(t, [L1 EXCEPT !.dur = TimeNeeded(L.a, L.b), !.ph = 2],
                                "gf_wait")
                ELSE owner' = NoTask /\ Finish(t, L1, "ok")

\* (mutant) a failed RPM send is swallowed: go_for returns normally
GF_BeginSwallow(t, L, Q, w) ==
    IF L.b = 0
    THEN /\ owner' = t
         /\ waiters' = Append(Q, t)
         /\ Suspend(t, L, "gf_stop")
         /\ UNCHANGED <<ctrl, wire>>
    ELSE LET ok == SendOK(w)
             L1 == Tx(L, CmdRpm, RpmInt(L.a), TRUE, w)
         IN  /\ wire' = Wire(CmdRpm, RpmInt(L.a), w)
             /\ current_rpm' = IF ok THEN L.a ELSE current_rpm
             /\ is_powered' = IF ok THEN TRUE ELSE is_powered
             /\ is_moving' = IF ok THEN TRUE ELSE is_moving
             /\ UNCHANGED <<current_power, position>>
             /\ waiters' = Q
             /\ IF ok /\ L.a # 0
                THEN /\ owner' = t
                     /\ Suspend(t, [L1 EXCEPT !.dur = TimeNeeded(L.a, L.b), !.ph = 2],
                                "gf_wait")
                ELSE owner' = NoTask /\ Finish(t, L1, "ok")

\* lines 512-534: inside the lock.  `await self.stop()` needs the lock this
\* task already holds (asyncio.Lock is not re-entrant): the task queues
\* behind itself and stays suspended with the lock held.
GF_Begin(t, L, Q, w) ==
    IF L.b = 0
    THEN /\ owner' = t
         /\ waiters' = Append(Q, t)
         /\ Suspend(t, L, "gf_stop")
         /\ UNCHANGED <<ctrl, wire>>
    ELSE LET ok == SendOK(w)
             L1 == Tx(L, CmdRpm, RpmInt(L.a), TRUE, w)
         IN  /\ wire' = Wire(CmdRpm, RpmInt(L.a), w)
             /\ current_rpm' = IF ok THEN L.a ELSE current_rpm
             /\ is_powered' = IF ok THEN TRUE ELSE is_powered
             /\ is_moving' = IF ok THEN TRUE ELSE is_moving
             /\ UNCHANGED <<current_power, position>>
             /\ waiters' = Q
             /\ IF ~ok
                THEN owner' = NoTask /\ Finish(t, L1, "raise")
                ELSE IF L.a # 0
                THEN /\ owner' = t
                     /\ Suspend(t, [L1 EXCEPT !.dur = TimeNeeded(L.a, L.b), !.ph = 2],
                                "gf_wait")
                ELSE owner' = NoTask /\ Finish(t, L1, "ok")

\* lines 536-537: the timed wait is over, go_for calls stop() with the lock held
GF_Wake(t) ==
    /\ waiters' = Append(waiters, t)
    /\ Suspend(t, loc[t], "gf_stop")
    /\ UNCHANGED <<owner, ctrl, wire>>

\* -------------------------------------------------------------- set_rpm
\* (mutant) a set_rpm that also forgets the recorded power
RPM_BodyClearsPower(t, L, Q, w) ==
    LET ok == SendOK(w)
        L1 == Tx(L, CmdRpm, RpmInt(L.a), TRUE, w)
    IN  /\ wire' = Wire(CmdRpm, RpmInt(L.a), w)
        /\ current_rpm' = IF ok THEN L.a ELSE current_rpm
        /\ is_powered' = IF ok THEN L.a # 0 ELSE is_powered
        /\ is_moving' = IF ok THEN L.a # 0 ELSE is_moving
        /\ current_power' = IF ok THEN 0 ELSE current_power
        /\ UNCHANGED position
        /\ owner' = NoTask
        /\ waiters' = Q
        /\ Finish(t, L1, IF ok THEN "ok" ELSE "raise")

\* lines 567-578
RPM_Body(t, L, Q, w) ==
    LET ok == SendOK(w)
        L1 == Tx(L, CmdRpm, RpmInt(L.a), TRUE, w)
    IN  /\ wire' = Wire(CmdRpm, RpmInt(L.a), w)
        /\ current_rpm' = IF ok THEN L.a ELSE current_rpm
        /\ is_powered' = IF ok THEN L.a # 0 ELSE is_powered
        /\ is_moving' = IF ok THEN L.a # 0 ELSE is_moving
        /\ UNCHANGED <<current_power, position>>
        /\ owner' = NoTask
        /\ waiters' = Q
        /\ Finish(t, L1, IF ok THEN "ok" ELSE "raise")

\* -------------------------------------------------- reset_zero_position
\* (mutant) the offset is added to the position instead of replacing it
RZ_BodyAdds(t, L, Q) ==
    /\ position' = position + L.a
    /\ UNCHANGED <<is_powered, current_power, current_rpm, is_moving, wire>>
    /\ owner' = NoTask
    /\ waiters' = Q
    /\ Finish(t, L, "ok")

\* lines 589-591
RZ_Body(t, L, Q) ==
    /\ position' = L.a
    /\ UNCHANGED <<is_powered, current_power, current_rpm, is_moving, wire>>
    /\ owner' = NoTask
    /\ waiters' = Q
    /\ Finish(t, L, "ok")

\* lines 593-601: get_position returns self._position, without the lock
GetPosition == position

\* ----------------------------------------------------------- do_command
\* lines 659-670: get_vesc_values; got: _read_packet(4) returned a payload
DC_GetValues(t, L, w, got) ==
    /\ wire' = Wire(CmdGetValues, 0, w)
    /\ UNCHANGED <<owner, waiters, ctrl>>
    /\ LET L1 == Tx(L, CmdGetValues, 0, owner = t, w) IN
       IF SendOK(w)
       THEN IF got THEN Finish(t, L1, "success")
                   ELSE Finish(t, [L1 EXCEPT !.msg = Msg("Failed to read VESC values")],
                               "error")
       ELSE Finish(t, [L1 EXCEPT !.msg = Msg("Failed to request VESC values")], "error")

\* lines 672-684: set_current; numeric: isinstance(current, (int, float))
DC_SetCurrent(t, L, numeric, w) ==
    IF numeric
    THEN /\ wire' = Wire(CmdCurrent, CurrentMa(L.a), w)
         /\ UNCHANGED <<owner, waiters, ctrl>>
         /\ LET L1 == Tx(L, CmdCurrent, CurrentMa(L.a), owner = t, w) IN
            IF SendOK(w)
            THEN Finish(t, L1, "success")
            ELSE Finish(t, [L1 EXCEPT !.msg = Msg("Failed to set current")], "error")
    ELSE /\ UNCHANGED <<owner, waiters, ctrl, wire>>
         /\ Finish(t, [L EXCEPT !.msg = Msg("Invalid current value")], "error")

\* lines 686-693: test_direction stops first
TD_Begin(t, L, w) ==
    IF CanAcquire
    THEN StopBody(t, L, waiters, w)
    ELSE Enqueue(t, L, "st_acq")

\* lines 695-704: after asyncio.sleep(0.2)
TD_Dispatch(t, w) ==
    LET L == [loc[t] EXCEPT !.ph = 2] IN
    CASE L.dir \in {"forward", "reverse"} ->
           LET L2 == [L EXCEPT !.a = IF L.dir = "forward" THEN L.b ELSE -L.b]
           IN  IF CanAcquire THEN SP_Begin(t, L2, waiters, w)
                             ELSE Enqueue(t, L2, "sp_acq")
      [] L.dir = "stop" ->
           IF CanAcquire THEN StopBody(t, L, waiters, w)
                         ELSE Enqueue(t, L, "st_acq")
      [] OTHER ->
           /\ UNCHANGED <<owner, waiters, ctrl, wire>>
           /\ Finish(t, [L EXCEPT !.msg = Msg("Invalid direction")], "error")

\* (mutant) an unknown command name is treated as a hard failure
DC_UnknownRaises(t, L) ==
    /\ UNCHANGED <<owner, waiters, ctrl, wire>>
    /\ Finish(t, L, "raise")

\* line 707: any other command name
DC_Unknown(t, L) ==
    /\ UNCHANGED <<owner, waiters, ctrl, wire>>
    /\ Finish(t, [L EXCEPT !.msg = [text |-> "Unknown command: ", name |-> L.dir]],
              "error")

\* ------------------------------------------------------------- actions
\* the number of calls explored: MaxCalls for NTasks task slots, one more for
\* each further slot
CallCap == MaxCalls + Cardinality(DOMAIN pc) - NTasks

\* a call arrives and runs in a fresh task; tasks are interchangeable, so
\* the free slot with the lowest number takes it
NewCall(t) ==
    /\ pc[t] = "idle"
    /\ \A u \in Tasks : u < t => pc[u] # "idle"
    /\ ncalls < CallCap
    /\ ncalls' = ncalls + 1
    /\ UNCHANGED <<link, nopen, codec>>

CallSetPower(t, power, w) ==
    /\ NewCall(t)
    /\ LET L == [Blank EXCEPT !.op = "set_power", !.a = power]
       IN  IF CanAcquire THEN SP_Begin(t, L, waiters, w)
                         ELSE Enqueue(t, L, "sp_acq")

CallStop(t, w) ==
    /\ NewCall(t)
    /\ LET L == [Blank EXCEPT !.op = "stop"]
       IN  IF CanAcquire THEN StopBody(t, L, waiters, w)
                         ELSE Enqueue(t, L, "st_acq")

CallGoFor(t, rpm, revolutions, w) ==
    /\ NewCall(t)
    /\ LET L == [Blank EXCEPT !.op = "go_for", !.a = rpm, !.b = revolutions]
       IN  IF CanAcquire THEN GF_Begin(t, L, waiters, w)
                         ELSE Enqueue(t, L, "gf_acq")

\* lines 552-556: the distance is computed before go_for asks for the lock
CallGoTo(t, rpm, target, w) ==
    /\ NewCall(t)
    /\ LET L == [Blank EXCEPT !.op = "go_to", !.a = rpm, !.b = target - position,
                             !.tgt = target]
       IN  IF CanAcquire THEN GF_Begin(t, L, waiters, w)
                         ELSE Enqueue(t, L, "gf_acq")

CallSetRpm(t, rpm, w) ==
    /\ NewCall(t)
    /\ LET L == [Blank EXCEPT !.op = "set_rpm", !.a = rpm]
       IN  IF CanAcquire THEN RPM_Body(t, L, waiters, w)
                         ELSE Enqueue(t, L, "rpm_acq")

CallResetZero(t, offset) ==
    /\ NewCall(t)
    /\ LET L == [Blank EXCEPT !.op = "reset_zero_position", !.a = offset]
       IN  IF CanAcquire THEN RZ_Body(t, L, waiters)
                         ELSE Enqueue(t, L, "rz_acq")

CallGetValues(t, w, got) ==
    /\ NewCall(t)
    /\ DC_GetValues(t, [Blank EXCEPT !.op = "do_command", !.dir = "get_vesc_values"],
                    w, got)

CallSetCurrent(t, current, numeric, w) ==
    /\ NewCall(t)
    /\ DC_SetCurrent(t, [Blank EXCEPT !.op = "do_command", !.dir = "set_current",
                                      !.a = current], numeric, w)

CallTestDirection(t, direction, power, w) ==
    /\ NewCall(t)
    /\ TD_Begin(t, [Blank EXCEPT !.op = "do_command", !.dir = direction,
                                 !.b = power, !.ph = 1], w)

CallUnknown(t, name) ==
    /\ NewCall(t)
    /\ DC_Unknown(t, [Blank EXCEPT !.op = "do_command", !.dir = name])

\* the lock was released and this task is first in the queue
Granted(t, w) ==
    /\ pc[t] \in {"sp_acq", "st_acq", "gf_acq", "rpm_acq", "rz_acq", "gf_stop"}
    /\ owner = NoTask
    /\ waiters # <<>>
    /\ Head(waiters) = t
    /\ UNCHANGED <<link, ncalls, nopen, codec>>
    /\ LET Q == Tail(waiters)
           L == loc[t]
       IN  CASE pc[t] = "sp_acq" -> SP_Begin(t, L, Q, w)
             [] pc[t] = "gf_acq" -> GF_Begin(t, L, Q, w)
             [] pc[t] = "rpm_acq" -> RPM_Body(t, L, Q, w)
             [] pc[t] = "rz_acq" -> RZ_Body(t, L, Q)
             [] OTHER -> StopBody(t, L, Q, w)

\* asyncio.sleep(0.1) of set_power is over
SettleDone(t, w) ==
    /\ pc[t] = "sp_settle"
    /\ UNCHANGED <<link, ncalls, nopen, codec>>
    /\ SP_Send(t, loc[t], waiters, w)

\* asyncio.sleep(time_needed) of go_for is over
WaitDone(t) ==
    /\ pc[t] = "gf_wait"
    /\ UNCHANGED <<link, ncalls, nopen, codec>>
    /\ GF_Wake(t)

\* asyncio.sleep(0.2) of test_direction is over
TestSleepDone(t, w) ==
    /\ pc[t] = "td_sleep"
    /\ UNCHANGED <<link, ncalls, nopen, codec>>
    /\ TD_Dispatch(t, w)

\* (mutant) the old port is not closed before the new one is opened
ReconfigureNoClose(opened) ==
    /\ link' = IF opened THEN "open" ELSE link
    /\ nopen' = IF opened THEN nopen + 1 ELSE nopen
    /\ UNCHANGED <<owner, waiters, ctrl, wire, pc, loc, last, ncalls, codec>>

\* lines 350-374: close the old port if there is one (closing a closed port
\* does nothing), then open the new one; opened: serial.Serial() succeeded,
\* otherwise it raises and self.serial_port stays the old, closed object
Reconfigure(opened) ==
    LET closed == IF link = "open" THEN nopen - 1 ELSE nopen IN
    /\ link' = IF opened THEN "open" ELSE IF link = "none" THEN "none" ELSE "closed"
    /\ nopen' = IF opened THEN closed + 1 ELSE closed
    /\ UNCHANGED <<owner, waiters, ctrl, wire, pc, loc, last, ncalls, codec>>

Next ==
    \/ \E t \in Tasks, p \in PowerInputs, w \in SendOutcomes : CallSetPower(t, p, w)
    \/ \E t \in Tasks, w \in SendOutcomes : CallStop(t, w)
    \/ \E t \in Tasks, r \in RpmInputs, n \in RevInputs, w \in SendOutcomes : CallGoFor(t, r, n, w)
    \/ \E t \in Tasks, r \in RpmInputs, g \in TargetInputs, w \in SendOutcomes : CallGoTo(t, r, g, w)
    \/ \E t \in Tasks, r \in RpmInputs, w \in SendOutcomes : CallSetRpm(t, r, w)
    \/ \E t \in Tasks, o \in OffsetInputs : CallResetZero(t, o)
    \/ \E t \in Tasks, w \in SendOutcomes, got \in BOOLEAN : CallGetValues(t, w, got)
    \/ \E t \in Tasks, c \in CurrentInputs, numeric \in BOOLEAN, w \in SendOutcomes :
          CallSetCurrent(t, c, numeric, w)
    \/ \E t \in Tasks, d \in Directions, p \in TestPowers, w \in SendOutcomes :
          CallTestDirection(t, d, p, w)
    \/ \E t \in Tasks, name \in UnknownNames : CallUnknown(t, name)
    \/ \E t \in Tasks, w \in SendOutcomes : Granted(t, w)
    \/ \E t \in Tasks, w \in SendOutcomes : SettleDone(t, w)
    \/ \E t \in Tasks : WaitDone(t)
    \/ \E t \in Tasks, w \in SendOutcomes : TestSleepDone(t, w)
    \/ \E opened \in BOOLEAN : Reconfigure(opened)

Spec == Init /\ [][Next]_vars

\* ------------------------------------------------------- framing steps
\* the payloads handed to the framing code
Payloads == UNION {[1..n -> ByteInputs] : n \in 0..MaxPayload}
ExpectedInputs == {NoExpected, 0} \cup IdInputs

\* _send_packet(id, payload) writes its frame and the bytes come back into
\* the receive buffer unchanged
SendLoopback(id, payload) ==
    /\ frame.origin = "none"
    /\ ~SendBytes(id, payload).raised
    /\ tx' = [id |-> id, payload |-> payload]
    /\ frame' = [bytes |-> SendBytes(id, payload).bytes, origin |-> "loopback",
                 flipped |-> FALSE]
    /\ UNCHANGED <<rx, link, lockv, ctrl, wire, pc, loc, last, ncalls, nopen>>

\* a frame in the layout _read_packet reads arrives in the receive buffer
Receive(id, payload) ==
    /\ frame.origin = "none"
    /\ frame' = [bytes |-> InboundFrame(id, payload), origin |-> "inbound",
                 flipped |-> FALSE]
    /\ UNCHANGED <<tx, rx, link, lockv, ctrl, wire, pc, loc, last, ncalls, nopen>>

\* one bit of the payload or of the CRC field (bytes 4.. of the frame) is
\* inverted before the frame is read
Corrupt(i, k) ==
    /\ frame.origin = "inbound"
    /\ ~frame.flipped
    /\ ~rx.called
    /\ i \in 4..Len(frame.bytes)
    /\ frame' = [frame EXCEPT !.bytes[i] = FlipBit(@, k), !.flipped = TRUE]
    /\ UNCHANGED <<tx, rx, link, lockv, ctrl, wire, pc, loc, last, ncalls, nopen>>

\* _read_packet(expected) on the receive buffer
Read(expected) ==
    /\ frame.origin # "none"
    /\ ~rx.called
    /\ rx' = ReadPacket(frame.bytes, expected)
    /\ UNCHANGED <<tx, frame, link, lockv, ctrl, wire, pc, loc, last, ncalls, nopen>>

\* payloads around the short/long packet boundary of _pack_payload
LongPayloads ==
    {[i \in 1..n |-> b] : n \in {ShortMax - 1, ShortMax, ShortMax + 1}, b \in {0, 255}}

\* _pack_payload(payload) on its own: the frame it returns ("packed"), or the
\* struct.error it raises ("raised")
Pack(payload) ==
    /\ frame.origin = "none"
    /\ tx' = [id |-> NoTx.id, payload |-> payload]
    /\ frame' = [bytes |-> pack_payload(payload).bytes,
                 origin |-> IF pack_payload(payload).raised THEN "raised" ELSE "packed",
                 flipped |-> FALSE]
    /\ UNCHANGED <<rx, link, lockv, ctrl, wire, pc, loc, last, ncalls, nopen>>

CodecNext ==
    \/ \E payload \in Payloads \cup LongPayloads : Pack(payload)
    \/ \E id \in IdInputs, payload \in Payloads : SendLoopback(id, payload)
    \/ \E id \in IdInputs, payload \in Payloads : Receive(id, payload)
    \/ \E i \in 4..(MaxPayload + 5), k \in 0..7 : Corrupt(i, k)
    \/ \E expected \in ExpectedInputs : Read(expected)

CodecSpec == Init /\ [][CodecNext]_vars

\* ------------------------------------------------ three concurrent calls
\* the same controller driven by one task more: set_power, reset_zero_position
\* and go_to calls, enough for one call to sleep inside the lock while two
\* others queue for it
RaceTasks == 1..(NTasks + 1)

RaceInit ==
    /\ link = "open"
    /\ owner = NoTask
    /\ waiters = <<>>
    /\ is_powered = FALSE
    /\ current_power = 0
    /\ current_rpm = 0
    /\ position = 0
    /\ is_moving = FALSE
    /\ wire = NoWire
    /\ pc = [t \in RaceTasks |-> "idle"]
    /\ loc = [t \in RaceTasks |-> Blank]
    /\ last = Blank
    /\ ncalls = 0
    /\ nopen = 1
    /\ tx = NoTx
    /\ frame = NoFrame
    /\ rx = NotRead

RaceNext ==
    \/ \E t \in RaceTasks, p \in PowerInputs, w \in SendOutcomes : CallSetPower(t, p, w)
    \/ \E t \in RaceTasks, o \in OffsetInputs : CallResetZero(t, o)
    \/ \E t \in RaceTasks, r \in RpmInputs, g \in TargetInputs, w \in SendOutcomes :
          CallGoTo(t, r, g, w)
    \/ \E t \in RaceTasks, w \in SendOutcomes : Granted(t, w)
    \/ \E t \in RaceTasks, w \in SendOutcomes : SettleDone(t, w)
    \/ \E t \in RaceTasks : WaitDone(t)

RaceSpec == RaceInit /\ [][RaceNext]_vars

\* ======================================================================
\* Step predicates used by the properties
\* ======================================================================
\* this step ends a call: a suspended coroutine finishes, or a call arrives
\* and runs to its end without suspending; last' is then that call
CallEnds ==
    \/ \E t \in Tasks : pc[t] # "idle" /\ pc'[t] = "idle"
    \/ ncalls' # ncalls /\ pc' = pc

\* the packets the port accepts in this step (each step sends at most one)
SentNow ==
    IF \E t \in Tasks : pc[t] # "idle" /\ pc'[t] = "idle"
    THEN LET t == CHOOSE u \in Tasks : pc[u] # "idle" /\ pc'[u] = "idle"
         IN  SubSeq(last'.sent, Len(loc[t].sent) + 1, Len(last'.sent))
    ELSE IF ncalls' # ncalls /\ pc' = pc
    THEN last'.sent
    ELSE IF \E t \in Tasks : loc'[t].sent # loc[t].sent
    THEN LET t == CHOOSE u \in Tasks : loc'[u].sent # loc[u].sent
         IN  SubSeq(loc'[t].sent, Len(loc[t].sent) + 1, Len(loc'[t].sent))
    ELSE <<>>

\* the _send_packet calls made in this step, accepted or not
TriedNow ==
    IF \E t \in Tasks : pc[t] # "idle" /\ pc'[t] = "idle"
    THEN LET t == CHOOSE u \in Tasks : pc[u] # "idle" /\ pc'[u] = "idle"
         IN  SubSeq(last'.tried, Len(loc[t].tried) + 1, Len(last'.tried))
    ELSE IF ncalls' # ncalls /\ pc' = pc
    THEN last'.tried
    ELSE IF \E t \in Tasks : loc'[t].tried # loc[t].tried
    THEN LET t == CHOOSE u \in Tasks : loc'[u].tried # loc[u].tried
         IN  SubSeq(loc'[t].tried, Len(loc[t].tried) + 1, Len(loc'[t].tried))
    ELSE <<>>

\* task t is suspended inside `async with self._lock`
InCS(t) == pc[t] \in {"sp_settle", "gf_wait", "gf_stop"}

ZeroDuty == [cmd |-> CmdDuty, val |-> 0]
Locked(cmd, val) == [cmd |-> cmd, val |-> val, locked |-> TRUE]
Stopped ==
    /\ is_powered = FALSE
    /\ is_moving = FALSE
    /\ current_power = 0
    /\ current_rpm = 0

\* ======================================================================
\* C1  Mutual exclusion of the motion operations.
\* At most one task is suspended inside the lock, and it is the lock's owner;
\* while a task is suspended there (the settle delay of a reversing set_power,
\* the timed wait of go_for), a step changes is_powered, is_moving,
\* current_power, current_rpm or position, or sends a packet from inside the
\* lock, only if it is that task's own step.
\* ======================================================================
C1_OneInside ==
    \A t \in Tasks : InCS(t) =>
        /\ owner = t
        /\ \A u \in Tasks : InCS(u) => u = t

C1_OnlyHolderActs ==
    \A h \in Tasks : (InCS(h) /\ pc'[h] = pc[h]) =>
        /\ ctrl' = ctrl
        /\ \A i \in DOMAIN SentNow : ~SentNow[i].locked

C1_MutualExclusion == [](C1_OneInside) /\ [][C1_OnlyHolderActs]_vars

\* a task sleeps inside the lock while another one waits for the lock
C1_Witness ==
    \E h \in Tasks, u \in Tasks :
        /\ pc[h] = "sp_settle"
        /\ pc[u] \in {"sp_acq", "st_acq", "gf_acq", "rpm_acq", "rz_acq"}
        /\ owner = h
        /\ waiters = <<u>>

\* ======================================================================
\* C2  Every packet is sent by a task that holds the lock, so between the
\* zero-duty packet of a reversal and its new duty, and between the RPM
\* packet of go_for and its stop, the port accepts no other packet.
\* ======================================================================
C2_WritesUnderLock ==
    /\ \A i \in DOMAIN last.sent : last.sent[i].locked
    /\ \A t \in Tasks :
          /\ (pc[t] = "sp_settle" /\ loc[t].sent # <<>>) => wire = ZeroDuty
          /\ pc[t] = "gf_wait" => wire = [cmd |-> CmdRpm, val |-> RpmInt(loc[t].a)]

\* ======================================================================
\* C3  A set_power that reverses the direction puts a zero-duty packet on
\* the transport before the packet with the new duty: when such a call has
\* ended with the new duty sent, its packets are zero duty, then the new duty.
\* ======================================================================
C3_ZeroBeforeReverse ==
    (last.op = "set_power" /\ last.rv /\ last.ret = "ok") =>
        last.sent = <<Locked(CmdDuty, 0), Locked(CmdDuty, DutyInt(Clamp(last.a)))>>

\* ======================================================================
\* C4  While the motor is powered by set_power and no call is in progress,
\* the component has a step of its own pending (the next refresh of the duty
\* command): something other than a new call or a reconfigure can happen.
\* ======================================================================
C4_OwnStep ==
    /\ Next
    /\ ncalls' = ncalls
    /\ link' = link
    /\ vars' # vars

C4_RefreshPending ==
    (/\ last.op = "set_power"
     /\ last.ret = "ok"
     /\ is_powered
     /\ current_power # 0
     /\ \A t \in Tasks : pc[t] = "idle") => ENABLED C4_OwnStep

\* ======================================================================
\* C5  go_for(rpm, revolutions) with rpm # 0 and revolutions # 0: once the
\* timed wait is over the zero-duty stop has been sent; the call returns
\* with the motor recorded as stopped, having sent the RPM packet and then
\* the zero-duty packet.
\* ======================================================================
C5_GoForCompletes ==
    /\ \A t \in Tasks :
          (loc[t].op = "go_for" /\ loc[t].a # 0 /\ loc[t].b # 0 /\ pc[t] = "gf_stop")
              => /\ Len(loc[t].sent) = 2
                 /\ loc[t].sent[2] = Locked(CmdDuty, 0)
    /\ (last.op = "go_for" /\ last.a # 0 /\ last.b # 0 /\ last.ret = "ok")
          => /\ last.sent = <<Locked(CmdRpm, RpmInt(last.a)), Locked(CmdDuty, 0)>>
             /\ ~is_powered
             /\ ~is_moving

\* ======================================================================
\* C6  go_for(rpm, 0) behaves as stop: it never stays suspended, and it ends
\* having sent exactly one zero-duty packet.
\* ======================================================================
C6_GoForZeroIsStop ==
    /\ \A t \in Tasks :
          (loc[t].op = "go_for" /\ loc[t].b = 0) => pc[t] \in {"idle", "gf_acq"}
    /\ (last.op = "go_for" /\ last.b = 0 /\ last.ret = "ok")
          => last.sent = <<Locked(CmdDuty, 0)>>

\* ======================================================================
\* C7  stop() whose send succeeds sends exactly one zero-duty packet, leaves
\* is_powered = is_moving = FALSE and current_power = current_rpm = 0, and
\* does not change position; a second stop() right after the first sends the
\* zero-duty packet again and leaves the state exactly as it was.
\* ======================================================================
C7_StopStep ==
    (CallEnds /\ last'.op = "stop" /\ last'.ret = "ok") =>
        /\ SentNow = <<Locked(CmdDuty, 0)>>
        /\ last'.sent = <<Locked(CmdDuty, 0)>>
        /\ wire' = ZeroDuty
        /\ Stopped'
        /\ position' = position
        /\ (last.op = "stop" /\ last.ret = "ok" /\ Stopped) => ctrl' = ctrl

C7_StopIdempotent == [][C7_StopStep]_vars

\* a stop() has returned right after another stop() that returned, from a
\* state in which a position had been set
C7_Witness ==
    /\ last.op = "stop"
    /\ last.ret = "ok"
    /\ last.after_stop
    /\ position # 0
    /\ Stopped
    /\ wire = ZeroDuty

\* ======================================================================
\* C8  set_power(p) behaves as set_power(clamp(p, -1, 1)): the direction-change
\* branch is taken exactly when the clamped value reverses the recorded
\* power, the duty sent is that of the clamped value, and on success
\* current_power is the clamped value and is_powered = is_moving =
\* (clamped value # 0).
\* ======================================================================
C8_ClampSpec(p) == IF p > One THEN One ELSE IF p < -One THEN -One ELSE p

C8_Opposed(x, y) == (x > 0 /\ y < 0) \/ (x < 0 /\ y > 0)

C8_SetPowerStep ==
    (CallEnds /\ last'.op = "set_power") =>
        LET c == C8_ClampSpec(last'.a) IN
        /\ last'.rv = C8_Opposed(current_power, c)
        /\ \A i \in DOMAIN SentNow : SentNow[i] = Locked(CmdDuty, DutyInt(c))
        /\ last'.ret = "ok" =>
              /\ SentNow = <<Locked(CmdDuty, DutyInt(c))>>
              /\ wire' = [cmd |-> CmdDuty, val |-> DutyInt(c)]
              /\ current_power' = c
              /\ is_powered' = (c # 0)
              /\ is_moving' = (c # 0)
              /\ UNCHANGED <<current_rpm, position>>
        /\ last'.ret # "ok" => ctrl' = ctrl

\* the first part of a reversing set_power: zero duty, whatever p is
C8_SettleStep ==
    \A t \in Tasks :
        (pc'[t] = "sp_settle" /\ pc[t] # "sp_settle" /\ loc'[t].op = "set_power") =>
            /\ C8_Opposed(current_power, C8_ClampSpec(loc'[t].a))
            /\ \A i \in DOMAIN SentNow : SentNow[i] = Locked(CmdDuty, 0)
            /\ ctrl' = ctrl

C8_PowerClamp == [][C8_SetPowerStep /\ C8_SettleStep]_vars

\* set_power(1.5) has returned and the record holds 1.0
C8_Witness ==
    /\ last.op = "set_power"
    /\ last.a > One
    /\ last.ret = "ok"
    /\ current_power = One
    /\ is_powered
    /\ wire = [cmd |-> CmdDuty, val |-> DutyScale]

\* ======================================================================
\* C9  When a transport write of set_power, set_rpm, stop, go_for (or go_to)
\* fails, the operation raises to its caller and is_powered, is_moving,
\* current_power, current_rpm and position keep their values: a finished call
\* of which the port did not take every packet it tried to write has raised,
\* the step that raises changes none of the fields, the first part of a
\* reversing set_power changes none of them, and the four motor fields change
\* only in a step in which a packet was sent and no call raised.
\* ======================================================================
C9_FailedWriteRaises ==
    (/\ last.op \in {"set_power", "set_rpm", "stop", "go_for", "go_to"}
     /\ last.ret \in {"ok", "raise"}
     /\ Len(last.sent) < Len(last.tried)) => last.ret = "raise"

C9_RaiseStep ==
    /\ (CallEnds /\ last'.op \in {"set_power", "set_rpm", "stop", "go_for", "go_to"}
                 /\ last'.ret = "raise") => ctrl' = ctrl
    /\ (\E t \in Tasks : pc'[t] = "sp_settle" /\ pc[t] # "sp_settle") => ctrl' = ctrl
    /\ (<<is_powered, current_power, current_rpm, is_moving>>' #
        <<is_powered, current_power, current_rpm, is_moving>>)
          => (SentNow # <<>> /\ ~(CallEnds /\ last'.ret = "raise"))

C9_FailureKeepsState == [](C9_FailedWriteRaises) /\ [][C9_RaiseStep]_vars

\* ======================================================================
\* C10  (as claimed) When the RPM send of go_for fails, go_for does not fail:
\* no go_for with revolutions # 0 ends by raising without having sent anything.
\* ======================================================================
C10_FallsBack ==
    ~(last.op = "go_for" /\ last.b # 0 /\ last.ret = "raise" /\ last.sent = <<>>)

\* C10  (amended) When the RPM send of go_for fails, go_for fails outright:
\* it raises in that very step, with no packet sent other than the RPM
\* packet itself when the port took it before the failure (no power command,
\* no stop), no wait, and the state and the lock left as they were.
C10_GoForRuns(t) ==
    \/ ncalls' # ncalls /\ pc[t] = "idle" /\ pc'[t] # "gf_acq"
                        /\ (loc'[t].op = "go_for" \/ (pc' = pc /\ last'.op = "go_for"))
                        /\ \A u \in Tasks : u < t => pc[u] # "idle"
    \/ pc[t] = "gf_acq" /\ pc'[t] # "gf_acq" /\ loc[t].op = "go_for"

C10_RpmFailureStep ==
    /\ \A t \in Tasks :
          (C10_GoForRuns(t) /\ link # "open"
             /\ (IF pc[t] = "gf_acq" THEN loc[t].b ELSE IF pc' = pc THEN last'.b ELSE loc'[t].b) # 0)
          => /\ CallEnds
             /\ last'.op = "go_for"
             /\ last'.ret = "raise"
    /\ (CallEnds /\ last'.op = "go_for" /\ last'.ret = "raise") =>
          /\ last'.sent \in {<<>>, <<Locked(CmdRpm, RpmInt(last'.a))>>}
          /\ ctrl' = ctrl
          /\ wire' \in {wire, [cmd |-> CmdRpm, val |-> RpmInt(last'.a)]}
          /\ owner' = NoTask

C10_RpmFailureRaises == [][C10_RpmFailureStep]_vars

\* go_for(rpm, revolutions # 0) has raised on a closed link
C10_Witness ==
    /\ last.op = "go_for"
    /\ last.b # 0
    /\ last.ret = "raise"
    /\ link = "closed"

\* ======================================================================
\* C11  set_power tries float duty first, then scaled-integer duty, then a
\* current command, and fails to its caller only when all three attempts have
\* failed: the attempts a finished set_power made for its power (after the
\* zero duty of a direction change) start with a float duty, and a set_power
\* that raised made three.
\* ======================================================================
C11_PowerAttempts ==
    SubSeq(last.tried, (IF last.rv THEN 2 ELSE 1), Len(last.tried))

C11_FallbackChain ==
    (last.op = "set_power" /\ last.ret \in {"ok", "raise"}) =>
        /\ Len(C11_PowerAttempts) >= 1
        /\ C11_PowerAttempts[1] = [cmd |-> CmdDuty, enc |-> "f32"]
        /\ last.ret = "raise" => Len(C11_PowerAttempts) = 3

\* ======================================================================
\* C12  go_to(rpm, target) is go_for(rpm, target - position): when target is
\* the current position it behaves as stop (it does not stay suspended and
\* ends having sent exactly one zero-duty packet); with rpm # 0 and a distance
\* to go, once the timed wait is over the stop has been sent, and when the
\* call has returned the position is the target.
\* ======================================================================
C12_GoToReachesTarget ==
    /\ \A t \in Tasks :
          (loc[t].op = "go_to" /\ loc[t].b = 0) => pc[t] \in {"idle", "gf_acq"}
    /\ (last.op = "go_to" /\ last.b = 0 /\ last.ret = "ok")
          => last.sent = <<Locked(CmdDuty, 0)>>
    /\ \A t \in Tasks :
          (loc[t].op = "go_to" /\ loc[t].a # 0 /\ loc[t].b # 0 /\ pc[t] = "gf_stop")
              => /\ Len(loc[t].sent) = 2
                 /\ loc[t].sent[2] = Locked(CmdDuty, 0)
    /\ (last.op = "go_to" /\ last.a # 0 /\ last.ret = "ok" /\ \A t \in Tasks : pc[t] = "idle")
          => position = last.tgt

\* ======================================================================
\* C13  reset_zero_position(offset) sets position to offset and nothing else:
\* the step that ends it makes no _send_packet call, leaves the port's last
\* packet, is_powered, is_moving, current_power and current_rpm as they were,
\* and get_position() then returns offset.
\* ======================================================================
C13_ResetStep ==
    (CallEnds /\ last'.op = "reset_zero_position") =>
        /\ last'.ret = "ok"
        /\ GetPosition' = last'.a
        /\ last'.tried = <<>>
        /\ TriedNow = <<>>
        /\ wire' = wire
        /\ UNCHANGED <<is_powered, is_moving, current_power, current_rpm>>

C13_ResetOnlyPosition == [][C13_ResetStep]_vars

\* a reset_zero_position(0.5) has returned while the motor is recorded as
\* running at a non-zero power
C13_Witness ==
    /\ last.op = "reset_zero_position"
    /\ last.ret = "ok"
    /\ last.a # 0
    /\ GetPosition = last.a
    /\ is_powered
    /\ current_power # 0
    /\ wire # NoWire

\* ======================================================================
\* C14  A set_rpm(rpm) that returns has made exactly one _send_packet call,
\* an RPM command carrying int(rpm), accepted by the port; it sets
\* current_rpm = rpm and is_powered = is_moving = (rpm # 0) and leaves
\* position and current_power as they were. Nothing is written afterwards
\* without another call: a step taken while no call is in progress and no
\* call arrives writes nothing.
\* ======================================================================
C14_SetRpmStep ==
    (CallEnds /\ last'.op = "set_rpm" /\ last'.ret = "ok") =>
        /\ last'.tried = <<[cmd |-> CmdRpm, enc |-> "i32"]>>
        /\ last'.sent = <<Locked(CmdRpm, RpmInt(last'.a))>>
        /\ SentNow = last'.sent
        /\ wire' = [cmd |-> CmdRpm, val |-> RpmInt(last'.a)]
        /\ current_rpm' = last'.a
        /\ is_powered' = (last'.a # 0)
        /\ is_moving' = (last'.a # 0)
        /\ UNCHANGED <<position, current_power>>

C14_QuietStep ==
    ((\A t \in Tasks : pc[t] = "idle") /\ ncalls' = ncalls) =>
        (wire' = wire /\ TriedNow = <<>> /\ ctrl' = ctrl)

C14_SetRpmOnce == [][C14_SetRpmStep /\ C14_QuietStep]_vars

\* set_rpm(500.5) has returned with a power recorded from an earlier set_power
C14_Witness ==
    /\ last.op = "set_rpm"
    /\ last.ret = "ok"
    /\ last.a # 0
    /\ current_rpm = last.a
    /\ is_powered
    /\ current_power # 0
    /\ wire = [cmd |-> CmdRpm, val |-> RpmInt(last.a)]
    /\ \A t \in Tasks : pc[t] = "idle"

\* ======================================================================
\* C15  do_command with a command name it does not know returns
\* {"status": "error", "message": "Unknown command: <name>"}: it does not
\* raise, does not suspend, makes no _send_packet call, and leaves the
\* controller state, the lock, the port and its last packet as they were.
\* ======================================================================
C15_UnknownStep ==
    /\ (CallEnds /\ last'.op = "do_command" /\ last'.dir \in UnknownNames) =>
          /\ last'.ret = "error"
          /\ last'.msg = [text |-> "Unknown command: ", name |-> last'.dir]
          /\ last'.tried = <<>>
          /\ TriedNow = <<>>
          /\ wire' = wire
          /\ ctrl' = ctrl
          /\ lockv' = lockv
          /\ link' = link
          /\ pc' = pc
    /\ \A t \in Tasks : loc'[t].dir \notin UnknownNames

C15_UnknownCommand == [][C15_UnknownStep]_vars

\* do_command({"command": "bogus"}) has returned its error while another task
\* is inside a reversing set_power with the motor powered
C15_Witness ==
    /\ last.op = "do_command"
    /\ last.dir = "bogus"
    /\ last.ret = "error"
    /\ last.msg.name = "bogus"
    /\ is_powered
    /\ \E t \in Tasks : pc[t] = "sp_settle"

\* ======================================================================
\* C16  do_command with get_vesc_values, set_current or test_direction ends
\* with status "success" or "error" and never raises, whatever the port does.
\* ======================================================================
C16_Recognised == {"get_vesc_values", "set_current"} \cup Directions

C16_NeverRaises ==
    (last.op = "do_command" /\ last.dir \in C16_Recognised /\ last.ret # "none")
        => last.ret \in {"success", "error"}

\* ======================================================================
\* C17  A do_command rejected for an invalid parameter value (test_direction
\* with a direction other than forward/reverse/stop, set_current with a
\* non-numeric current) and ended with status "error" has made no
\* _send_packet call: nothing was written and so no state was changed.
\* ======================================================================
C17_Rejected(L) ==
    /\ L.op = "do_command"
    /\ L.ret = "error"
    /\ L.msg \in {Msg("Invalid current value"), Msg("Invalid direction")}

C17_InvalidParameter ==
    C17_Rejected(last) =>
        /\ last.tried = <<>>
        /\ last.sent = <<>>

\* ======================================================================
\* C20  After any sequence of reconfigure calls the controller holds at most
\* one open serial handle, and exactly when its port is open: a reconfigure
\* that opens a port has closed the previous one, and a failed open leaves
\* no open handle behind.
\* ======================================================================
C20_OneHandle ==
    /\ nopen \in {0, 1}
    /\ (nopen = 1) = (link = "open")

\* a reconfigure has failed to open the port: the old handle is closed
C20_Witness ==
    /\ link = "closed"
    /\ nopen = 0

\* ======================================================================
\* C18  The bytes _send_packet writes for a command id and payload, read back
\* by _read_packet (expecting that id, or any id), give the original payload.
\* ======================================================================
C18_RoundTrip ==
    (frame.origin = "loopback" /\ rx.called /\ rx.expected \in {NoExpected, tx.id}) =>
        /\ ~rx.none
        /\ rx.payload = tx.payload

\* ======================================================================
\* C19  A well-formed inbound frame (packet id, 16-bit length, payload, CRC16)
\* with one bit of its payload or of its CRC field inverted is never accepted:
\* _read_packet returns None. The same frame left intact is accepted when the
\* id is the expected one.
\* ======================================================================
C19_CorruptionRejected ==
    /\ (frame.origin = "inbound" /\ frame.flipped /\ rx.called) => rx.none
    /\ (frame.origin = "inbound" /\ ~frame.flipped /\ rx.called
           /\ rx.expected \in {NoExpected, 0, frame.bytes[1]}) =>
          /\ ~rx.none
          /\ rx.payload = SubSeq(frame.bytes, 4, Len(frame.bytes) - 2)

\* a frame with a two-byte payload and one inverted bit has been read, with
\* no particular id expected, and was refused
C19_Witness ==
    /\ frame.origin = "inbound"
    /\ frame.flipped
    /\ Len(frame.bytes) = 7
    /\ rx.called
    /\ rx.expected = NoExpected
    /\ rx.none

\* ======================================================================
\* C21  _read_packet returns a payload only when id, length, payload and CRC
\* were read in full, the received CRC is the CRC16 over id ++ length ++
\* payload, and, whenever an expected id is given (0 included), the packet id
\* is the expected one.
\* ======================================================================
C21_Complete(s) ==
    /\ Len(s) >= 5
    /\ Len(s) >= s[2] * 256 + s[3] + 5
    /\ LET n == s[2] * 256 + s[3]
       IN  s[4 + n] * 256 + s[5 + n] = crc16(SubSeq(s, 1, 3 + n))

C21_AcceptsOnlyExpected ==
    (rx.called /\ ~rx.none) =>
        /\ C21_Complete(frame.bytes)
        /\ rx.payload = SubSeq(frame.bytes, 4, 3 + frame.bytes[2] * 256 + frame.bytes[3])
        /\ rx.expected # NoExpected => frame.bytes[1] = rx.expected

\* ======================================================================
\* C22  _pack_payload of a payload of n bytes returns 0x02, n, payload,
\* CRC16(payload) big-endian, 0x03 for every n from 0 to 256 (256 included),
\* and 0x03, n >> 8, n & 0xFF, payload, CRC16(payload), 0x03 for n > 256;
\* every byte of the header is within 0..255.
\* ======================================================================
C22_Frame(p) ==
    (IF Len(p) <= 256 THEN <<2, Len(p)>> ELSE <<3, Len(p) \div 256, Len(p) % 256>>)
        \o p \o <<crc16(p) \div 256, crc16(p) % 256>> \o <<3>>

C22_PackLayout ==
    (frame.origin \in {"packed", "raised"}) =>
        /\ frame.origin = "packed"
        /\ frame.bytes = C22_Frame(tx.payload)
        /\ \A i \in 1..3 : frame.bytes[i] \in 0..255

\* ======================================================================
\* C23  For every byte sequence the controller framed or packed, _crc16
\* returns the value VESCTester.crc16 (the reference bitwise CRC16: initial
\* value 0, polynomial 0x1021, MSB first) returns, and the value is within
\* 0..65535.
\* ======================================================================
C23_Agrees(data) ==
    /\ crc16(data) = tester_crc16(data)
    /\ crc16(data) \in 0..65535

C23_CrcMatchesReference ==
    /\ C23_Agrees(frame.bytes)
    /\ C23_Agrees(tx.payload)

\* a payload past the short-packet boundary whose CRC is not zero, packed
\* into a frame whose own CRC is another value
C23_Witness ==
    /\ Len(tx.payload) > 256
    /\ crc16(tx.payload) # 0
    /\ frame.origin = "packed"
    /\ crc16(frame.bytes) # crc16(tx.payload)

\* ======================================================================
\* C24  In every reachable state the power is_powered() reports lies in
\* [-1, 1]; before the first call (at construction) it is 0 and is_powered and
\* is_moving are false.
\* ======================================================================
C24_PowerInRange ==
    /\ -One <= current_power
    /\ current_power <= One
    /\ ncalls = 0 => (current_power = 0 /\ ~is_powered /\ ~is_moving)

\* set_power(-1.5) has returned and the record holds -1.0
C24_Witness ==
    /\ last.op = "set_power"
    /\ last.a < -One
    /\ last.ret = "ok"
    /\ current_power = -One
    /\ is_powered

\* ======================================================================
\* C25  No call waits for the controller lock forever: whenever set_power,
\* set_rpm, stop or reset_zero_position is queued for the lock (a stop()
\* issued during the timed wait of a go_for included), the task holding the
\* lock is one that will release it, i.e. it is in a timed sleep and not
\* itself queued for the lock it holds.
\* ======================================================================
C25_NoWaitForever ==
    \A t \in Tasks :
        (pc[t] \in {"sp_acq", "st_acq", "rpm_acq", "rz_acq"} /\ owner # NoTask)
            => pc[owner] \in {"sp_settle", "gf_wait"}

\* ======================================================================
\* C26  The revolutions go_to hands to go_for equal target minus the position
\* held when go_for acquires the lock: while the go_for of a go_to holds the
\* lock (nothing else can change the position then), its distance is the
\* target minus the position.
\* ======================================================================
C26_NoStaleDistance ==
    \A t \in DOMAIN pc :
        (loc[t].op = "go_to" /\ pc[t] \in {"gf_wait", "gf_stop"})
            => loc[t].b = loc[t].tgt - position

\* ======================================================================
\* C27  Whenever go_for returns without raising (rpm = 0 with revolutions # 0
\* included), is_powered and is_moving are false and the last command
\* written to the transport is a zero-duty command.
\* ======================================================================
C27_ReturnStep ==
    (CallEnds /\ last'.op = "go_for" /\ last'.ret = "ok") =>
        /\ ~is_powered'
        /\ ~is_moving'
        /\ wire' = ZeroDuty

C27_GoForEndsStopped == [][C27_ReturnStep]_vars

\* ======================================================================
\* C28  In every reachable state is_powered equals is_moving, and every step
\* that changes one of the two flags leaves them equal.
\* ======================================================================
C28_FlagsStep ==
    (is_powered' # is_powered \/ is_moving' # is_moving) => is_powered' = is_moving'

C28_FlagsAgree == [](is_powered = is_moving) /\ [][C28_FlagsStep]_vars

\* a go_for is in its timed wait with both flags set
C28_Witness ==
    \E t \in Tasks :
        /\ pc[t] = "gf_wait"
        /\ loc[t].op = "go_for"
        /\ is_powered
        /\ is_moving

\* ======================================================================
\* C29  Whenever is_powered() reports powered = false, the power it reports
\* with it is 0.
\* ======================================================================
C29_UnpoweredIsZero == ~is_powered => current_power = 0

\* ======================================================================
\* C30  When no call is in progress and the command most recently written
\* to the transport is a duty command, the recorded current_power is the
\* duty of that command: a reversing set_power whose second write fails does
\* not leave the record at the old power after its zero-duty write went out.
\* ======================================================================
C30_RecordMatchesWire ==
    ((\A t \in Tasks : pc[t] = "idle") /\ wire.cmd = CmdDuty)
        => DutyInt(current_power) = wire.val

====
